---- MODULE Spec2Model ----
(***************************************************************************)
(* A model of the ECG denoising and metrics code:                          *)
(*   src/ecgDenoising.py  swtDenoise                                       *)
(*   src/ecgAnalyses.py   calculate_heart_rate, analyze_rhythm,            *)
(*                        analyze_st_segment, analyze_pr_interval          *)
(*   src/main.py          the batch script                                 *)
(*                                                                         *)
(* The functions are pure, so each has a specification of its own whose    *)
(* Init draws the arguments from bounded sets and whose action applies     *)
(* the function: the variables are the arguments, the locals the claims    *)
(* speak about, and the outcome (a returned value or the exception that    *)
(* ends the call).                                                         *)
(*                                                                         *)
(* Libraries.  pywt is PyWavelets 1.x (the name PyWavelet imported at      *)
(* ecgDenoising.py line 7 resolves to it): wavedec raises ValueError for a *)
(* negative level and only warns for a level above dwt_max_level.  numpy   *)
(* and scipy are as of their current releases: np.std and np.mean of no    *)
(* samples are NaN, np.mean of a ragged list raises ValueError, and a      *)
(* slice bound that is a float raises TypeError.                           *)
(*                                                                         *)
(* Numbers.  The wavelet is 'db1' (waveletChoose = 'db', orderChoose = 1,  *)
(* the Haar filter pair), whose coefficients are 1/sqrt(2).  A coefficient *)
(* of decomposition level j is held as the integer n with value            *)
(* n / sqrt(2)^j, and a reconstructed sample as a numerator over a power   *)
(* of two, so every comparison of swtDenoise is exact.  The standard       *)
(* deviation of analyze_rhythm is compared by cross-multiplication.  The   *)
(* means and amplitudes of analyze_st_segment are float64 values, computed *)
(* bit by bit with IEEE rounding: abs(0.4 - 0.3) > 0.1 holds there as it   *)
(* does in Python.  NaN is a value of its own, and every comparison with   *)
(* NaN is false.                                                           *)
(***************************************************************************)
EXTENDS Integers, Sequences, FiniteSets, TLC

VARIABLES
    \* swtDenoise: arguments, locals, outcome
    signal, levelChoose, setThreshold, denPc, fwdCoeffs, invCoeffs, denoised_ecg,
    \* calculate_heart_rate / analyze_st_segment / analyze_rhythm arguments
    r_peak_indices, sampling_rate, rr_intervals, threshold, ecg_signal,
    \* calculate_heart_rate and the caller's unpacking of its result
    hrPc, hrResult,
    \* analyze_rhythm
    rhythmPc, rhythm_status,
    \* analyze_st_segment
    stPc, st_segments, tp_segments, st_baseline, st_amplitudes, st_status,
    \* analyze_pr_interval
    moduleGlobals, prPc, p_peak_indices, qrsSearches, pr_status,
    \* main.py
    dataTable, mainPc, reports

denVars == <<signal, levelChoose, setThreshold, denPc, fwdCoeffs, invCoeffs, denoised_ecg>>
argVars == <<r_peak_indices, sampling_rate, rr_intervals, threshold, ecg_signal>>
hrVars == <<hrPc, hrResult>>
rhythmVars == <<rhythmPc, rhythm_status>>
stVars == <<stPc, st_segments, tp_segments, st_baseline, st_amplitudes, st_status>>
prVars == <<moduleGlobals, prPc, p_peak_indices, qrsSearches, pr_status>>
mainVars == <<dataTable, mainPc, reports>>
vars == <<denVars, argVars, hrVars, rhythmVars, stVars, prVars, mainVars>>

----------------------------------------------------------------------------
(* Bounds of the model *)

\* longest signal handed to swtDenoise with samples of every value
MaxLen == 5
\* longest signal handed to swtDenoise, with samples 0 or MaxVal above MaxLen
MaxLongLen == 9
\* samples of a signal handed to swtDenoise are 0..MaxVal
MaxVal == 2
\* largest levelChoose tried (the smallest is -1)
MaxLevel == 3
\* largest setThreshold tried (the smallest is -1)
MaxThreshold == 2

----------------------------------------------------------------------------
(* Helpers *)

Abs(x) == IF x < 0 THEN -x ELSE x

RECURSIVE Pow2(_)
Pow2(n) == IF n <= 0 THEN 1 ELSE 2 * Pow2(n - 1)

RECURSIVE SeqSum(_)
SeqSum(s) == IF s = <<>> THEN 0 ELSE Head(s) + SeqSum(Tail(s))

\* all sequences over S of length lo..hi
SeqsOf(S, lo, hi) == UNION {[1..n -> S] : n \in lo..hi}

----------------------------------------------------------------------------
(* src/ecgDenoising.py: swtDenoise with the 'db1' wavelet *)

\* pywt.dwt(x, 'db1'), default mode 'symmetric': one level of the transform.
\* The output has (len + 1) div 2 coefficients; an odd-length input is
\* extended by repeating its last sample.  Numerators only: the result is
\* one level deeper than x.
DwtPair(x, k) ==
    LET a == x[2 * k - 1]
        b == IF 2 * k <= Len(x) THEN x[2 * k] ELSE x[Len(x)]
    IN  <<a + b, a - b>>

dwtApprox(x) == [k \in 1..((Len(x) + 1) \div 2) |-> DwtPair(x, k)[1]]
dwtDetail(x) == [k \in 1..((Len(x) + 1) \div 2) |-> DwtPair(x, k)[2]]

\* pywt.wavedec(signal, 'db1', level = n): [cA_n, cD_n, cD_n-1, ..., cD_1].
\* level = 0 gives [signal]; a level above dwt_max_level only warns.
RECURSIVE wavedec(_, _)
wavedec(x, n) ==
    IF n <= 0 THEN <<x>>
    ELSE LET deeper == wavedec(dwtApprox(x), n - 1)
         IN  deeper \o <<dwtDetail(x)>>

\* the decomposition level of entry i of a wavedec list of n levels
\* (entry 1 is the approximation, of level n; entry 2 is cD_n; the last is cD_1)
LevelOfEntry(i, n) == IF i = 1 THEN n ELSE n + 2 - i

\* the conventional gate, abs(c) <= setThreshold
AbsAtMost(c, j, t) == IF t < 0 THEN FALSE ELSE c * c <= t * t * Pow2(j)

\* abs(c) >= setThreshold for the level-j coefficient of numerator c:
\* |c| / sqrt(2)^j >= t, squared when t is positive
AbsAtLeast(c, j, t) == IF t <= 0 THEN TRUE ELSE c * c >= t * t * Pow2(j)

\* the last position the gating loop visits: range(0, len - 1) visits the
\* Python positions 0 .. len - 2, which are the positions 1 .. len - 1 here
GateStop(d) == Len(d) - 1

\* lines 41-43 and 52-54: for k in range(0, len(cDetailed) - 1):
\*                           if abs(cDetailed[k]) >= setThreshold: cDetailed[k] = 0
GateLoop(d, j, t) ==
    [k \in 1..Len(d) |-> IF k <= GateStop(d) /\ AbsAtLeast(d[k], j, t) THEN 0 ELSE d[k]]

\* the entry of the level-1 detail, multilevelCoefficients[-1]
GatedEntryFirstLevel(coeffs) == Len(coeffs)

\* lines 50 and 56: cDetailed = multilevelCoefficients[1], the second entry of
\* the list, which is cD_n, the detail of the deepest level
GatedEntry(coeffs) == 2

\* pywt.idwt(cA, cD, 'db1'): interleave (cA + cD)/sqrt(2), (cA - cD)/sqrt(2).
\* cA holds numerators over 2^s * sqrt(2)^j and cD numerators over sqrt(2)^j;
\* the result holds numerators over 2^(s+1) * sqrt(2)^(j-1).
idwt(cA, cD, s) ==
    [i \in 1..(2 * Len(cA)) |->
        LET k == (i + 1) \div 2
        IN  IF i % 2 = 1 THEN cA[k] + Pow2(s) * cD[k] ELSE cA[k] - Pow2(s) * cD[k]]

\* pywt.waverec: fold idwt over the details, dropping the last approximation
\* sample when the approximation is one longer than the next detail.
\* "ValueError" stands for 'coefficient shape mismatch'.
RECURSIVE waverecFrom(_, _, _, _)
waverecFrom(a, coeffs, i, s) ==
    IF i > Len(coeffs) THEN [ok |-> TRUE, num |-> a, den |-> Pow2(s)]
    ELSE LET d == coeffs[i]
             a1 == IF Len(a) = Len(d) + 1 THEN SubSeq(a, 1, Len(d)) ELSE a
         IN  IF Len(a1) # Len(d) THEN [ok |-> FALSE, num |-> <<>>, den |-> 1]
             ELSE waverecFrom(idwt(a1, d, s), coeffs, i + 1, s + 1)

waverec(coeffs) == waverecFrom(coeffs[1], coeffs, 2, 0)

NoSignal == [ok |-> FALSE, num |-> <<>>, den |-> 1]

\* swtDenoise as a whole: the forward transform, the gate, the inverse.
\* The result is the record of the locals and the outcome.
swtDenoise(x, level, t) ==
    IF level = 1 THEN
        \* lines 30, 41-46
        LET fwd == <<dwtApprox(x), dwtDetail(x)>>
            inv == <<fwd[1], GateLoop(fwd[2], 1, t)>>
        IN  [pc |-> "return", fwd |-> fwd, inv |-> inv,
             out |-> [ok |-> TRUE, num |-> idwt(inv[1], inv[2], 0), den |-> 2]]
    ELSE IF level < 0 THEN
        \* line 33: pywt's _check_level raises ValueError for a negative level
        [pc |-> "ValueError", fwd |-> <<>>, inv |-> <<>>, out |-> NoSignal]
    ELSE
        LET fwd == wavedec(x, level) IN
        IF Len(fwd) < 2 THEN
            \* line 50: multilevelCoefficients[1] of a one-entry list
            [pc |-> "IndexError", fwd |-> fwd, inv |-> <<>>, out |-> NoSignal]
        ELSE
            \* lines 50-59
            LET g == GatedEntry(fwd)
                inv == [i \in 1..Len(fwd) |->
                          IF i = g THEN GateLoop(fwd[i], LevelOfEntry(i, level), t)
                          ELSE fwd[i]]
                out == waverec(inv)
            IN  [pc |-> IF out.ok THEN "return" ELSE "ValueError",
                 fwd |-> fwd, inv |-> inv, out |-> out]

Signals == SeqsOf(0..MaxVal, 1, MaxLen) \cup SeqsOf({0, MaxVal}, MaxLen + 1, MaxLongLen)
Levels == -1..MaxLevel
Thresholds == -1..MaxThreshold

DenIdle ==
    /\ signal = <<>> /\ levelChoose = 0 /\ setThreshold = 0 /\ denPc = "idle"
    /\ fwdCoeffs = <<>> /\ invCoeffs = <<>> /\ denoised_ecg = NoSignal

DenInit ==
    /\ signal \in Signals /\ levelChoose \in Levels /\ setThreshold \in Thresholds
    /\ denPc = "call"
    /\ fwdCoeffs = <<>> /\ invCoeffs = <<>> /\ denoised_ecg = NoSignal

CallSwtDenoise ==
    /\ denPc = "call"
    /\ LET r == swtDenoise(signal, levelChoose, setThreshold)
       IN  /\ denPc' = r.pc
           /\ fwdCoeffs' = r.fwd
           /\ invCoeffs' = r.inv
           /\ denoised_ecg' = r.out
    /\ UNCHANGED <<signal, levelChoose, setThreshold>>
    /\ UNCHANGED <<argVars, hrVars, rhythmVars, stVars, prVars, mainVars>>

----------------------------------------------------------------------------
(* Rationals: the heart rate of calculate_heart_rate *)

Rat(n, d) == [nan |-> FALSE, num |-> n, den |-> d]

----------------------------------------------------------------------------
(* float64, as numpy and Python compute with it in analyze_st_segment.     *)
(* A finite non-zero double is (-1)^neg * 1.b2 b3 ... b53 * 2^exp, held as *)
(* its sign, its exponent and the MantissaBits bits of its significand,    *)
(* most significant first (bits[1] = 1).  Every operation rounds the exact *)
(* result to the nearest double, ties to even.  Subnormals and overflow    *)
(* are out of reach of the means of a signal.                              *)

\* bits of a float64 significand
MantissaBits == 53

Zeros(n) == [i \in 1..n |-> 0]

NaN == [nan |-> TRUE, zero |-> FALSE, neg |-> FALSE, exp |-> 0, bits |-> <<>>]
FloatZero == [nan |-> FALSE, zero |-> TRUE, neg |-> FALSE, exp |-> 0, bits |-> <<>>]
Float(neg, e, bits) == [nan |-> FALSE, zero |-> FALSE, neg |-> neg, exp |-> e, bits |-> bits]

RECURSIVE IncrBits(_)
\* the bit string b plus one, and the carry out of its first bit
IncrBits(b) ==
    IF b = <<>> THEN [carry |-> 1, bits |-> <<>>]
    ELSE IF b[Len(b)] = 0 THEN [carry |-> 0, bits |-> SubSeq(b, 1, Len(b) - 1) \o <<1>>]
    ELSE LET r == IncrBits(SubSeq(b, 1, Len(b) - 1))
         IN  [carry |-> r.carry, bits |-> r.bits \o <<0>>]

\* round to nearest, ties to even: m holds the first MantissaBits bits of the
\* exact significand, half tells how what was cut off compares with half a
\* unit of the last bit kept ("lt", "eq" or "gt")
RoundNearestEven(neg, e, m, half) ==
    IF half = "lt" \/ (half = "eq" /\ m[MantissaBits] = 0) THEN Float(neg, e, m)
    ELSE LET r == IncrBits(m)
         IN  IF r.carry = 1 THEN Float(neg, e + 1, <<1>> \o Zeros(MantissaBits - 1))
             ELSE Float(neg, e, r.bits)

RECURSIVE ExpUp(_, _, _)
\* the largest e >= from with n * 2^e <= a
ExpUp(a, n, from) == IF n * Pow2(from + 1) <= a THEN ExpUp(a, n, from + 1) ELSE from

RECURSIVE ExpDown(_, _, _)
\* the least k >= from with a * 2^k >= n
ExpDown(a, n, from) == IF a * Pow2(from) >= n THEN from ELSE ExpDown(a, n, from + 1)

RECURSIVE DivBits(_, _, _, _)
\* k more bits of the binary expansion of rem / b (rem < b), after the bits acc
DivBits(rem, b, k, acc) ==
    IF k = 0 THEN [bits |-> acc, rem |-> rem]
    ELSE IF 2 * rem >= b THEN DivBits(2 * rem - b, b, k - 1, Append(acc, 1))
    ELSE DivBits(2 * rem, b, k - 1, Append(acc, 0))

\* the double nearest to s / n, for integers s and n > 0: what true division
\* of the (exact) sum by the count gives in np.mean
FloatDiv(s, n) ==
    IF s = 0 THEN FloatZero
    ELSE LET a == Abs(s)
             e == IF a >= n THEN ExpUp(a, n, 0) ELSE 0 - ExpDown(a, n, 1)
             \* a / n = (num / den) * 2^e with 1 <= num / den < 2
             num == IF e >= 0 THEN a ELSE a * Pow2(0 - e)
             den == IF e >= 0 THEN n * Pow2(e) ELSE n
             d == DivBits(num - den, den, MantissaBits - 1, <<1>>)
             half == IF 2 * d.rem > den THEN "gt" ELSE IF 2 * d.rem = den THEN "eq" ELSE "lt"
         IN  RoundNearestEven(s < 0, e, d.bits, half)

\* a > b for bit strings of one length
GreaterBits(a, b) ==
    \E i \in 1..Len(a) : a[i] > b[i] /\ \A j \in 1..(i - 1) : a[j] = b[j]

RECURSIVE AddBits(_, _, _, _, _)
\* a + b for bit strings of one length; the sum is one bit longer
AddBits(a, b, i, carry, acc) ==
    IF i = 0 THEN <<carry>> \o acc
    ELSE AddBits(a, b, i - 1, (a[i] + b[i] + carry) \div 2,
                 <<(a[i] + b[i] + carry) % 2>> \o acc)

RECURSIVE SubBits(_, _, _, _, _)
\* a - b for bit strings of one length, a >= b
SubBits(a, b, i, borrow, acc) ==
    IF i = 0 THEN acc
    ELSE IF a[i] - b[i] - borrow < 0
         THEN SubBits(a, b, i - 1, 1, <<a[i] - b[i] - borrow + 2>> \o acc)
         ELSE SubBits(a, b, i - 1, 0, <<a[i] - b[i] - borrow>> \o acc)

\* the double nearest to the exact number whose binary digits are b, the
\* first of weight 2^e (b holds a 1)
Normalize(neg, e, b) ==
    LET lead == CHOOSE i \in 1..Len(b) : b[i] = 1 /\ \A j \in 1..(i - 1) : b[j] = 0
        sig == SubSeq(b, lead, Len(b))
        cut == SubSeq(sig, MantissaBits + 1, Len(sig))
        half == IF cut = <<>> \/ cut[1] = 0 THEN "lt"
                ELSE IF \E i \in 2..Len(cut) : cut[i] = 1 THEN "gt" ELSE "eq"
    IN  IF Len(sig) <= MantissaBits
        THEN Float(neg, e - (lead - 1), sig \o Zeros(MantissaBits - Len(sig)))
        ELSE RoundNearestEven(neg, e - (lead - 1), SubSeq(sig, 1, MantissaBits), half)

\* x + y in float64
FloatAdd(x, y) ==
    IF x.nan \/ y.nan THEN NaN
    ELSE IF x.zero THEN y
    ELSE IF y.zero THEN x
    ELSE LET e == IF x.exp >= y.exp THEN x.exp ELSE y.exp
             len == MantissaBits + Abs(x.exp - y.exp)
             \* both significands as digits of weights 2^e, 2^(e-1), ...
             xa == Zeros(e - x.exp) \o x.bits \o Zeros(len - MantissaBits - (e - x.exp))
             ya == Zeros(e - y.exp) \o y.bits \o Zeros(len - MantissaBits - (e - y.exp))
         IN  IF x.neg = y.neg THEN Normalize(x.neg, e + 1, AddBits(xa, ya, len, 0, <<>>))
             ELSE IF xa = ya THEN FloatZero
             ELSE IF GreaterBits(xa, ya) THEN Normalize(x.neg, e, SubBits(xa, ya, len, 0, <<>>))
             ELSE Normalize(y.neg, e, SubBits(ya, xa, len, 0, <<>>))

FloatNeg(x) == IF x.nan \/ x.zero THEN x ELSE Float(~x.neg, x.exp, x.bits)

\* x - y in float64
FloatSub(x, y) == FloatAdd(x, FloatNeg(y))

\* abs(x) > abs(y); every comparison with NaN is false
AbsGreater(x, y) ==
    /\ ~x.nan /\ ~y.nan /\ ~x.zero
    /\ \/ y.zero
       \/ x.exp > y.exp
       \/ x.exp = y.exp /\ GreaterBits(x.bits, y.bits)

\* np.mean of the integer samples s: NaN for no samples, else the sum (exact
\* in float64) divided by the count
npMean(s) == IF s = <<>> THEN NaN ELSE FloatDiv(SeqSum(s), Len(s))

----------------------------------------------------------------------------
(* src/ecgAnalyses.py: calculate_heart_rate, and main.py line 64 *)

\* most R-peaks in a peak set
MaxPeaks == 3
\* R-peak indices handed to calculate_heart_rate are 0..MaxIndex
MaxIndex == 7

RECURSIVE IncreasingSeqs(_, _)
\* the strictly increasing sequences of at most n members of the set S
IncreasingSeqs(S, n) ==
    IF n = 0 THEN {<<>>}
    ELSE LET shorter == IncreasingSeqs(S, n - 1)
         IN  shorter \cup {Append(p, x) : p \in {q \in shorter : Len(q) = n - 1},
                                          x \in S}

IsIncreasing(p) == \A i \in 1..(Len(p) - 1) : p[i] < p[i + 1]

PeakSets(S, n) == {p \in IncreasingSeqs(S, n) : IsIncreasing(p)}

\* np.diff
npDiff(p) == [i \in 1..(Len(p) - 1) |-> p[i + 1] - p[i]]

\* line 48: return 0, a bare number
ReturnNeutral == [kind |-> "int", heart_rate |-> Rat(0, 1), rr_intervals |-> <<>>]

\* calculate_heart_rate: rr_intervals holds the numerators of diff / sampling_rate,
\* heart_rate is 60 / mean(rr_intervals) = 60 * n * sampling_rate / sum(diff)
calculate_heart_rate(peaks, rate) ==
    IF Len(peaks) <= 1 THEN ReturnNeutral
    ELSE LET d == npDiff(peaks)
         IN  [kind |-> "tuple",
              heart_rate |-> Rat(60 * Len(d) * rate, SeqSum(d)),
              rr_intervals |-> d]

HrRates == {125, 1000}

HrIdle == hrPc = "idle" /\ hrResult = ReturnNeutral

ArgsIdle ==
    /\ r_peak_indices = <<>> /\ sampling_rate = 0 /\ rr_intervals = <<>>
    /\ threshold = 0 /\ ecg_signal = <<>>

HrInit ==
    /\ r_peak_indices \in PeakSets(0..MaxIndex, MaxPeaks)
    /\ sampling_rate \in HrRates
    /\ rr_intervals = <<>> /\ threshold = 0 /\ ecg_signal = <<>>
    /\ hrPc = "call" /\ hrResult = ReturnNeutral

CallCalculateHeartRate ==
    /\ hrPc = "call"
    /\ hrResult' = calculate_heart_rate(r_peak_indices, sampling_rate)
    /\ hrPc' = "returned"
    /\ UNCHANGED <<denVars, argVars, rhythmVars, stVars, prVars, mainVars>>

\* main.py line 64: HR, RRintervals = calculate_heart_rate(rPeaks, fs).
\* Unpacking an int raises TypeError.
UnpackHeartRate ==
    /\ hrPc = "returned"
    /\ hrPc' = IF hrResult.kind = "tuple" THEN "unpacked" ELSE "TypeError"
    /\ UNCHANGED <<hrResult, denVars, argVars, rhythmVars, stVars, prVars, mainVars>>

----------------------------------------------------------------------------
(* src/ecgAnalyses.py: analyze_rhythm *)

\* longest RR-interval series handed to analyze_rhythm
MaxIntervals == 3
\* RR intervals handed to analyze_rhythm are 1..MaxInterval
MaxInterval == 4
\* thresholds handed to analyze_rhythm are 0..MaxRhythmThreshold
MaxRhythmThreshold == 2

\* lines 67-68: np.std(rr_intervals) <= threshold.  np.std is the population
\* standard deviation, NaN for an empty series; var <= t^2 is compared as
\* n * sum(x^2) - sum(x)^2 <= t^2 * n^2.
StdAtMost(rr, t) ==
    /\ rr # <<>>
    /\ t >= 0
    /\ Len(rr) * SeqSum([i \in 1..Len(rr) |-> rr[i] * rr[i]])
          - SeqSum(rr) * SeqSum(rr) <= t * t * Len(rr) * Len(rr)

analyze_rhythm(rr, t) == IF StdAtMost(rr, t) THEN "Regular" ELSE "Irregular"

RhythmIdle == rhythmPc = "idle" /\ rhythm_status = "none"

RhythmInit ==
    /\ rr_intervals \in SeqsOf(1..MaxInterval, 0, MaxIntervals)
    /\ threshold \in 0..MaxRhythmThreshold
    /\ r_peak_indices = <<>> /\ sampling_rate = 0 /\ ecg_signal = <<>>
    /\ rhythmPc = "call" /\ rhythm_status = "none"

CallAnalyzeRhythm ==
    /\ rhythmPc = "call"
    /\ rhythm_status' = analyze_rhythm(rr_intervals, threshold)
    /\ rhythmPc' = "returned"
    /\ UNCHANGED <<denVars, argVars, hrVars, stVars, prVars, mainVars>>

----------------------------------------------------------------------------
(* src/ecgAnalyses.py: analyze_st_segment *)

\* length of the signals handed to analyze_st_segment
StLen == 8
\* samples of a signal handed to analyze_st_segment are 0..MaxSample
MaxSample == 1
\* most R-peaks handed to analyze_st_segment
MaxStPeaks == 2

\* sampling rates tried: int(0.08 * 25) = int(0.08 * 30) = 2 samples,
\* int(0.2 * 25) = 5 and int(0.2 * 30) = 6 samples
StRates == {25, 30}

\* line 84: int(0.08 * sampling_rate)
st_segment_duration(rate) == (8 * rate) \div 100
\* line 85: int(0.2 * sampling_rate)
t_segment_start(rate) == (2 * rate) \div 10

\* Python's x[a:b] on a sequence of n items: a negative bound counts from the
\* end, and both are clamped to 0..n
PyBound(n, a) == IF a < 0 THEN (IF a + n < 0 THEN 0 ELSE a + n) ELSE (IF a > n THEN n ELSE a)

PySlice(x, a, b) ==
    LET lo == PyBound(Len(x), a)
        hi == PyBound(Len(x), b)
    IN  IF lo < hi THEN SubSeq(x, lo + 1, hi) ELSE <<>>

RECURSIVE Flatten(_)
Flatten(ss) == IF ss = <<>> THEN <<>> ELSE Head(ss) \o Flatten(Tail(ss))

\* the literal 0.1 of line 100 is the double nearest to
\* StThresholdNum / StThresholdDen
StThresholdNum == 1
StThresholdDen == 10
StThreshold == FloatDiv(StThresholdNum, StThresholdDen)

\* lines 99-103: Abnormal at the first amplitude with abs(st_amplitude) > 0.1
StatusOf(amps) ==
    IF \E i \in 1..Len(amps) : AbsGreater(amps[i], StThreshold)
    THEN "Abnormal" ELSE "Normal"

\* analyze_st_segment.  np.mean of TP segments of unequal lengths raises
\* ValueError (the list is not a rectangular array); np.mean of no samples is NaN.
analyze_st_segment(x, peaks, rate) ==
    LET dur == st_segment_duration(rate)
        off == t_segment_start(rate)
        \* lines 88-89
        st == [i \in 1..Len(peaks) |-> PySlice(x, peaks[i] + off, peaks[i] + off + dur)]
        \* lines 91-92
        tp == [i \in 1..Len(peaks) |-> PySlice(x, peaks[i] - dur, peaks[i])]
        ragged == \E i, j \in 1..Len(peaks) : Len(tp[i]) # Len(tp[j])
        \* line 95
        base == npMean(Flatten(tp))
        \* line 96
        amps == [i \in 1..Len(peaks) |-> FloatSub(npMean(st[i]), base)]
    IN  IF ragged
        THEN [pc |-> "ValueError", st |-> st, tp |-> tp, base |-> NaN, amps |-> <<>>,
              status |-> "none"]
        ELSE [pc |-> "returned", st |-> st, tp |-> tp, base |-> base, amps |-> amps,
              status |-> StatusOf(amps)]

StIdle ==
    /\ stPc = "idle" /\ st_segments = <<>> /\ tp_segments = <<>>
    /\ st_baseline = NaN /\ st_amplitudes = <<>> /\ st_status = "none"

Ones(n) == [i \in 1..n |-> 1]

\* the sampling rate of main.py (fs, line 30): 10-sample windows, 25 samples
\* from the R-peak to the ST window
MainRates == {125}

\* a signal of samples 0 and 1 that holds exactly the TP window and the ST
\* window of an R-peak at index st_segment_duration(rate), with k ones in the
\* TP window and l ones in the ST window
WindowSignal(rate, k, l) ==
    LET dur == st_segment_duration(rate)
    IN  Ones(k) \o Zeros(dur - k) \o Zeros(t_segment_start(rate))
            \o Ones(l) \o Zeros(dur - l)

\* the calls tried: every short signal with every peak set at the low rates,
\* where windows run off both ends of the signal, and the window signals at
\* the rate of main.py, where the means are tenths
StCalls ==
    {[x |-> x, peaks |-> p, rate |-> r] :
        x \in SeqsOf(0..MaxSample, StLen, StLen),
        p \in PeakSets(0..(StLen - 1), MaxStPeaks),
        r \in StRates}
    \cup
    UNION {{[x |-> WindowSignal(r, k, l), peaks |-> <<st_segment_duration(r)>>, rate |-> r] :
               k \in 0..st_segment_duration(r), l \in 0..st_segment_duration(r)} :
           r \in MainRates}

StInit ==
    /\ \E c \in StCalls :
          /\ ecg_signal = c.x
          /\ r_peak_indices = c.peaks
          /\ sampling_rate = c.rate
    /\ rr_intervals = <<>> /\ threshold = 0
    /\ stPc = "call" /\ st_segments = <<>> /\ tp_segments = <<>>
    /\ st_baseline = NaN /\ st_amplitudes = <<>> /\ st_status = "none"

CallAnalyzeStSegment ==
    /\ stPc = "call"
    /\ LET r == analyze_st_segment(ecg_signal, r_peak_indices, sampling_rate)
       IN  /\ stPc' = r.pc
           /\ st_segments' = r.st
           /\ tp_segments' = r.tp
           /\ st_baseline' = r.base
           /\ st_amplitudes' = r.amps
           /\ st_status' = r.status
    /\ UNCHANGED <<denVars, argVars, hrVars, rhythmVars, prVars, mainVars>>

----------------------------------------------------------------------------
(* src/ecgAnalyses.py: analyze_pr_interval *)

\* length of the ecg_data a caller may bind in the module
PrLen == 44
\* ecg_data repeats a pattern of PrPeriod samples, each 0 or 1
PrPeriod == 4
\* most R-peaks a caller may bind in the module
MaxPrPeaks == 2

\* line 140: p_peak_search_window = 0.04 * 1000, the float 40.0
p_peak_search_window == 40

\* R-peak indices tried: either side of the 40-sample window
PrPeakCandidates == {2, 3, 5, p_peak_search_window, p_peak_search_window + 1, PrLen - 1}

\* scipy.signal.find_peaks(x)[0][0] as an index from 0, or -1 when there is no
\* peak: the first i with x[i-1] < x[i], a plateau x[i..e] and x[e+1] < x[i];
\* the peak is reported at the middle of the plateau, (i + e) div 2
IsPeakStart(x, i, e) ==
    /\ 1 <= i /\ i <= e /\ e + 1 <= Len(x) - 1
    /\ x[i] < x[i + 1]
    /\ \A m \in i..e : x[m + 1] = x[i + 1]
    /\ x[e + 2] < x[i + 1]

FirstPeak(x) ==
    LET starts == {i \in 1..Len(x) : \E e \in i..Len(x) : IsPeakStart(x, i, e)}
    IN  IF starts = {} THEN -1
        ELSE LET i == CHOOSE m \in starts : \A o \in starts : m <= o
                 e == CHOOSE m \in i..Len(x) : IsPeakStart(x, i, m)
             IN  (i + e) \div 2

\* lines 143-150, as far as they run: the P-peaks appended before the loop
\* ends or raises.  max(0, r_peak - 40.0) is the int 0 up to r_peak = 40 and
\* a float above, and a float slice bound raises TypeError.
RECURSIVE PLoop(_, _, _, _)
PLoop(data, peaks, i, found) ==
    IF i > Len(peaks) THEN [raised |-> FALSE, p |-> found, searches |-> Len(peaks)]
    ELSE IF peaks[i] > p_peak_search_window
         THEN [raised |-> TRUE, p |-> found, searches |-> i - 1]
         ELSE LET pk == FirstPeak(PySlice(data, 0, peaks[i]))
              IN  PLoop(data, peaks, i + 1, IF pk >= 0 THEN Append(found, pk) ELSE found)

\* analyze_pr_interval.  r_peak_indices and ecg_data are not parameters or
\* locals: they are looked up in the module's globals, where the module binds
\* neither (NameError at line 143).  With both bound by a caller, the first
\* QRS slice has the float bound r_peak + 100.0 (TypeError at line 160), and
\* with no R-peak qrs_peak is unbound at line 162 (UnboundLocalError).
PrWithGlobals(g) ==
    LET pl == PLoop(g.ecg_data, g.r_peak_indices, 1, <<>>)
    IN  IF pl.raised
        THEN [pc |-> "done", status |-> "TypeError", p |-> pl.p, qrs |-> 0]
        ELSE IF g.r_peak_indices # <<>>
        THEN [pc |-> "done", status |-> "TypeError", p |-> pl.p, qrs |-> 0]
        ELSE [pc |-> "done", status |-> "UnboundLocalError", p |-> pl.p, qrs |-> 0]

analyze_pr_interval(g, rr, rate, t) ==
    IF ~g.bound
    THEN [pc |-> "done", status |-> "NameError", p |-> <<>>, qrs |-> 0]
    ELSE PrWithGlobals(g)

Unbound == [bound |-> FALSE, ecg_data |-> <<>>, r_peak_indices |-> <<>>]

PrPatterns == [0..(PrPeriod - 1) -> 0..1]

PrGlobals ==
    {Unbound} \cup
    {[bound |-> TRUE, ecg_data |-> [i \in 1..PrLen |-> pat[(i - 1) % PrPeriod]],
      r_peak_indices |-> pk] :
        pat \in PrPatterns, pk \in PeakSets(PrPeakCandidates, MaxPrPeaks)}

PrIdle ==
    /\ moduleGlobals = Unbound /\ prPc = "idle" /\ p_peak_indices = <<>>
    /\ qrsSearches = 0 /\ pr_status = "none"

PrInit ==
    /\ moduleGlobals \in PrGlobals
    /\ rr_intervals \in SeqsOf(1..2, 0, 1)
    /\ sampling_rate \in HrRates
    /\ threshold = 0
    /\ r_peak_indices = <<>> /\ ecg_signal = <<>>
    /\ prPc = "call" /\ p_peak_indices = <<>> /\ qrsSearches = 0 /\ pr_status = "none"

CallAnalyzePrInterval ==
    /\ prPc = "call"
    /\ LET r == analyze_pr_interval(moduleGlobals, rr_intervals, sampling_rate, threshold)
       IN  /\ prPc' = r.pc
           /\ pr_status' = r.status
           /\ p_peak_indices' = r.p
           /\ qrsSearches' = r.qrs
    /\ UNCHANGED <<moduleGlobals, denVars, argVars, hrVars, rhythmVars, stVars, mainVars>>

----------------------------------------------------------------------------
(* src/main.py *)

\* most records (rows) of dataTable
MaxSets == 3
\* samples per record
NSamples == 2

\* Python compiles main.py as a whole before it runs any statement, and the
\* file does not compile: line 61 has a positional argument after a keyword
\* argument, line 89 an if without its colon.  The run ends in SyntaxError
\* with no record read and nothing reported.
RunScript(table) == [pc |-> "SyntaxError", reports |-> <<>>]

MainIdle == dataTable = <<>> /\ mainPc = "idle" /\ reports = <<>>

MainInit ==
    /\ dataTable \in SeqsOf([1..NSamples -> 0..MaxVal], 0, MaxSets)
    /\ mainPc = "start" /\ reports = <<>>

RunMain ==
    /\ mainPc = "start"
    /\ LET r == RunScript(dataTable)
       IN  mainPc' = r.pc /\ reports' = r.reports
    /\ UNCHANGED <<dataTable, denVars, argVars, hrVars, rhythmVars, stVars, prVars>>

----------------------------------------------------------------------------
(* The specifications: one per function *)

InitDenoise == DenInit /\ ArgsIdle /\ HrIdle /\ RhythmIdle /\ StIdle /\ PrIdle /\ MainIdle
NextDenoise == CallSwtDenoise
SpecDenoise == InitDenoise /\ [][NextDenoise]_vars

InitHeartRate == HrInit /\ DenIdle /\ RhythmIdle /\ StIdle /\ PrIdle /\ MainIdle
NextHeartRate == CallCalculateHeartRate \/ UnpackHeartRate
SpecHeartRate == InitHeartRate /\ [][NextHeartRate]_vars

InitRhythm == RhythmInit /\ DenIdle /\ HrIdle /\ StIdle /\ PrIdle /\ MainIdle
NextRhythm == CallAnalyzeRhythm
SpecRhythm == InitRhythm /\ [][NextRhythm]_vars

InitSt == StInit /\ DenIdle /\ HrIdle /\ RhythmIdle /\ PrIdle /\ MainIdle
NextSt == CallAnalyzeStSegment
SpecSt == InitSt /\ [][NextSt]_vars

InitPr == PrInit /\ DenIdle /\ HrIdle /\ RhythmIdle /\ StIdle /\ MainIdle
NextPr == CallAnalyzePrInterval
SpecPr == InitPr /\ [][NextPr]_vars

InitMain == MainInit /\ DenIdle /\ ArgsIdle /\ HrIdle /\ RhythmIdle /\ StIdle /\ PrIdle
NextMain == RunMain
SpecMain == InitMain /\ [][NextMain]_vars

----------------------------------------------------------------------------
(* The claims *)

\* the (0, empty series) pair of the heart-rate contract
NeutralPair == [kind |-> "tuple", heart_rate |-> Rat(0, 1), rr_intervals |-> <<>>]

\* C1: for a peak set of 0 or 1 peaks calculate_heart_rate returns the pair
\* (0, empty RR-interval series), and the caller's unpacking of the result
\* into (bpm, RR_intervals) succeeds.
C1_NeutralPairUnpacks ==
    (hrPc # "call" /\ Len(r_peak_indices) <= 1)
        => (hrResult = NeutralPair /\ hrPc # "TypeError")

\* C2: with level 1, every position of the detail sequence, the last one
\* included, is 0 after gating when its absolute value was >= threshold and
\* unchanged when it was below.
C2_EveryPositionGated ==
    (denPc = "return" /\ levelChoose = 1 /\ setThreshold >= 0)
        => \A k \in 1..Len(fwdCoeffs[2]) :
              invCoeffs[2][k] = IF AbsAtLeast(fwdCoeffs[2][k], 1, setThreshold)
                                THEN 0 ELSE fwdCoeffs[2][k]

\* C3 as stated: with level > 1 only the level-1 detail sequence (the last
\* entry of the coefficient list) is gated; the approximation and the detail
\* sequences of the levels 2..level reach the reconstruction unchanged.
C3_FirstLevelOnly ==
    (denPc = "return" /\ levelChoose > 1 /\ setThreshold >= 0)
        => \A i \in 1..Len(fwdCoeffs) :
              LevelOfEntry(i, levelChoose) # 1 \/ i = 1 => invCoeffs[i] = fwdCoeffs[i]

\* C3 amended: with level > 1 only the deepest detail sequence, that of level
\* levelChoose (entry 1 of the wavedec list), is gated: the approximation and
\* the detail sequences of the levels 1..level-1 reach the reconstruction
\* unchanged, the level-1 detail of the signal among them, and every
\* coefficient that changes is a coefficient of level levelChoose, at or
\* above the threshold, and becomes 0.
C3_DeepestLevelOnly ==
    (denPc = "return" /\ levelChoose > 1)
        => /\ Len(fwdCoeffs) = levelChoose + 1
           /\ Len(invCoeffs) = Len(fwdCoeffs)
           /\ fwdCoeffs[Len(fwdCoeffs)] = dwtDetail(signal)
           /\ \A i \in 1..Len(fwdCoeffs) :
                 /\ Len(invCoeffs[i]) = Len(fwdCoeffs[i])
                 /\ (i = 1 \/ LevelOfEntry(i, levelChoose) < levelChoose)
                       => invCoeffs[i] = fwdCoeffs[i]
                 /\ \A k \in 1..Len(fwdCoeffs[i]) :
                       invCoeffs[i][k] # fwdCoeffs[i][k]
                           => /\ i # 1 /\ LevelOfEntry(i, levelChoose) = levelChoose
                              /\ invCoeffs[i][k] = 0
                              /\ AbsAtLeast(fwdCoeffs[i][k], levelChoose, setThreshold)

\* C3 witness: a two-level call that zeroed a level-2 detail coefficient and
\* left in place a level-1 detail coefficient at or above the threshold, at a
\* position the gating loop visits.
C3_Witness ==
    /\ denPc = "return" /\ levelChoose = 2 /\ setThreshold > 0
    /\ invCoeffs[2] # fwdCoeffs[2]
    /\ \E k \in 1..(Len(fwdCoeffs[3]) - 1) :
          /\ AbsAtLeast(fwdCoeffs[3][k], 1, setThreshold)
          /\ invCoeffs[3][k] = fwdCoeffs[3][k]

\* a level the signal length supports for db1: 1 <= level <= floor(log2(len))
ValidLevel == levelChoose >= 1 /\ Pow2(levelChoose) <= Len(signal)

\* the reconstruction reproduces the signal, sample for sample
Reconstructs ==
    /\ denoised_ecg.ok
    /\ Len(denoised_ecg.num) >= Len(signal)
    /\ \A i \in 1..Len(signal) : denoised_ecg.num[i] = signal[i] * denoised_ecg.den

\* C4 as stated: with threshold 0 and a valid level the coefficients handed
\* to the inverse transform equal those of the forward transform, and the
\* reconstruction equals the signal.
C4_ThresholdZeroIdentity ==
    (denPc = "return" /\ setThreshold = 0 /\ ValidLevel)
        => (invCoeffs = fwdCoeffs /\ Reconstructs)

\* C4 amended: with threshold 0 and a valid level the gate zeroes every
\* coefficient of the gated detail sequence but its last, whatever its value
\* (abs(c) >= 0 always holds); the last coefficient and every other sequence
\* are unchanged; the reconstruction equals the signal exactly when the
\* zeroed coefficients were 0 already.
C4_ThresholdZeroZeroesGated ==
    (denPc = "return" /\ setThreshold = 0 /\ ValidLevel)
        => LET d == fwdCoeffs[2]
               g == invCoeffs[2]
           IN  /\ \A k \in 1..(Len(d) - 1) : g[k] = 0
               /\ g[Len(d)] = d[Len(d)]
               /\ \A i \in 1..Len(fwdCoeffs) : i # 2 => invCoeffs[i] = fwdCoeffs[i]
               /\ Reconstructs <=> (\A k \in 1..(Len(d) - 1) : d[k] = 0)

\* C4 witness: a threshold-0 call of a valid level that zeroed a non-zero
\* coefficient, kept a non-zero last coefficient, and returned a
\* reconstruction that differs from the signal.
C4_Witness ==
    /\ denPc = "return" /\ setThreshold = 0 /\ ValidLevel
    /\ \E k \in 1..(Len(fwdCoeffs[2]) - 1) : fwdCoeffs[2][k] # 0 /\ invCoeffs[2][k] = 0
    /\ invCoeffs[2][Len(invCoeffs[2])] # 0
    /\ ~Reconstructs

\* C5: a call with level < 1, with a level above the maximum the signal
\* length supports, or with a negative threshold ends in an error and
\* returns no denoised signal.
C5_InvalidParametersRaise ==
    (denPc # "call" /\ (levelChoose < 1 \/ Pow2(levelChoose) > Len(signal)
                          \/ setThreshold < 0))
        => (denPc # "return" /\ ~denoised_ecg.ok)

\* C6: analyze_rhythm returns Regular for a series of 0 or 1 intervals, for
\* every non-negative threshold.
C6_DegenerateIsRegular ==
    (rhythmPc = "returned" /\ Len(rr_intervals) <= 1 /\ threshold >= 0)
        => rhythm_status = "Regular"

\* the R-peaks whose TP window [r - 80ms, r) and ST window
\* [r + 200ms, r + 280ms) both lie inside the signal
InRangePeaks ==
    {i \in 1..Len(r_peak_indices) :
        /\ r_peak_indices[i] - st_segment_duration(sampling_rate) >= 0
        /\ r_peak_indices[i] + t_segment_start(sampling_rate)
              + st_segment_duration(sampling_rate) <= Len(ecg_signal)}

\* C7: an R-peak with a window outside the signal is set aside: the call
\* still returns, only the in-range peaks contribute an ST amplitude and
\* samples to the pooled TP baseline, and every window averaged is a full
\* window.
C7_OutOfRangePeaksExcluded ==
    stPc # "call"
        => /\ stPc = "returned"
           /\ Len(st_amplitudes) = Cardinality(InRangePeaks)
           /\ Len(Flatten(tp_segments))
                 = Cardinality(InRangePeaks) * st_segment_duration(sampling_rate)
           /\ \A i \in 1..Len(st_amplitudes) :
                 Len(st_segments[i]) = st_segment_duration(sampling_rate)

\* C8: the P-peak search and the QRS search are both performed for each
\* R-peak, so the call ends with one QRS search per R-peak.
C8_BothSearchesPerPeak ==
    prPc = "done" => qrsSearches = Len(moduleGlobals.r_peak_indices)

\* C9: when no R-peak yields a matched P/QRS pair, the empty R-peak set
\* included, the call ends in the insufficient-data error.
C9_NoPairIsInsufficientData ==
    (prPc = "done" /\ qrsSearches = 0) => pr_status = "InsufficientDataError"

\* C10: when the run has ended there is one outcome per record of the batch,
\* the last record included.
C10_OneOutcomePerRecord ==
    mainPc # "start" => Len(reports) = Len(dataTable)

====
